---- MODULE Spec2Model ----
(* A model of the log-structured key-value store of src/src/kv.rs.          *)
(*                                                                          *)
(* The directory is a map generation -> file; a file is the sequence of the *)
(* records appended to it, each with its byte length, so that byte offsets  *)
(* (CommandPos.pos / CommandPos.len) are the sums the code computes.  A     *)
(* record cut short by a crash or a failed write is a "Partial" item.       *)
(* The engine is the KvStore struct.  Every operation is one action that    *)
(* runs the whole handler, including the compaction a set triggers.         *)
EXTENDS Integers, Sequences, FiniteSets, TLC

\* ------------------------------------------------------------------ bounds
\* Largest generation number a run may allocate.
MaxGen == 5
\* Largest number of records the directory may hold when a mutation starts.
MaxItems == 3
\* Length in bytes of the long value "Y": under the one-byte key "a" its Set
\* record is exactly 1 MiB long, under the two-byte key "bb" one byte more.
BigLen == 1048546

\* --------------------------------------------------------------- constants
\* serde_json's externally tagged form of LogEntry::Set is
\* {"Set":{"key":"<k>","value":"<v>"}} : 29 bytes around key and value.
SetOverhead == 29
\* {"Remove":{"key":"<k>"}} : 21 bytes around the key.
RemoveOverhead == 21
COMPACTION_THRESHOLD == 1024 * 1024

Keys == {"a", "bb"}
\* BTreeMap<String, _> iterates in ascending key order.
KeyOrder == <<"a", "bb">>
Values == {"x", "Y"}
NoVal == "-"

KeyLen(k) == IF k = "bb" THEN 2 ELSE 1
ValLen(v) == IF v = "Y" THEN BigLen ELSE 1

\* ------------------------------------------------------------ log records
\* serde_json::to_writer(&mut writer, &LogEntry::Set{key, value})
SerializeSet(k, v) ==
    [type |-> "Set", key |-> k, value |-> v,
     len |-> SetOverhead + KeyLen(k) + ValLen(v)]

\* serde_json::to_writer(&mut writer, &LogEntry::Remove{key})
SerializeRemove(k) ==
    [type |-> "Remove", key |-> k, value |-> NoVal,
     len |-> RemoveOverhead + KeyLen(k)]

\* The first n bytes (0 < n < len) of a record: no JSON value.
PartialOf(item, n) ==
    [type |-> "Partial", key |-> item.key, value |-> NoVal, len |-> n]

RECURSIVE SumLen(_)
SumLen(items) ==
    IF items = <<>> THEN 0 ELSE Head(items).len + SumLen(Tail(items))

\* Byte offset at which the i-th item of a file starts.
OffsetOf(items, i) == SumLen(SubSeq(items, 1, i - 1))

\* CommandPos::from((generation, start..end))
CommandPos(g, start, end) == [generation |-> g, pos |-> start, len |-> end - start]

\* reader.seek(Start(pos)); reader.take(len): the bytes [pos, pos+len) of a
\* file.  They are a whole record when one starts at pos and is len long;
\* anything else (a range across records, past the end of the file) is a
\* byte string that is no JSON value, as long as the file has bytes there.
ReadRange(items, pos, len) ==
    IF \E i \in 1..Len(items) : OffsetOf(items, i) = pos /\ items[i].len = len
    THEN LET i == CHOOSE j \in 1..Len(items) :
                      OffsetOf(items, j) = pos /\ items[j].len = len
         IN  items[i]
    ELSE LET avail == IF SumLen(items) > pos THEN SumLen(items) - pos ELSE 0
         IN  [type |-> "Partial", key |-> NoVal, value |-> NoVal,
              len |-> IF avail < len THEN avail ELSE len]

\* ------------------------------------------------------------------ state
VARIABLES
    disk,       \* the directory: [existing generations -> file]
    up,         \* a KvStore value exists (the process runs and has opened)
    readers,    \* KvStore.readers: the generations with a reader
    writerGen,  \* the generation file KvStore.writer appends to
    writerPos,  \* KvStore.writer.pos
    wbuf,       \* records held in KvStore.writer's BufWriter, not yet on disk
    current_generation,
    index,      \* KvStore.index: [keys present -> CommandPos]
    uncompacted,
    amap,       \* history: the value each key's last acknowledged mutation left
    lastOp,     \* history: the last operation and what it returned
    down,       \* history: how the engine last went away, and the view then
    struck,     \* history: the environment has crashed the process or failed a step
    foreign     \* the directory: its entries that are no generation file

vars == <<disk, up, readers, writerGen, writerPos, wbuf, current_generation,
          index, uncompacted, amap, lastOp, down, struck, foreign>>

\* The engine and its directory as one value, for the handlers below.
Engine ==
    [disk |-> disk, readers |-> readers, writerGen |-> writerGen,
     writerPos |-> writerPos, wbuf |-> wbuf,
     current_generation |-> current_generation, index |-> index,
     uncompacted |-> uncompacted]

NoEngine(d) ==
    [disk |-> d, readers |-> {}, writerGen |-> 0, writerPos |-> 0,
     wbuf |-> <<>>, current_generation |-> 0,
     index |-> [k \in {} |-> CommandPos(0, 0, 0)], uncompacted |-> 0]

Install(s) ==
    /\ disk' = s.disk
    /\ readers' = s.readers
    /\ writerGen' = s.writerGen
    /\ writerPos' = s.writerPos
    /\ wbuf' = s.wbuf
    /\ current_generation' = s.current_generation
    /\ index' = s.index
    /\ uncompacted' = s.uncompacted

\* ------------------------------------------------------------- file system
CreateFile(d, g) ==
    IF g \in DOMAIN d THEN d
    ELSE [h \in DOMAIN d \cup {g} |-> IF h = g THEN <<>> ELSE d[h]]

RemoveFiles(d, gs) == [h \in DOMAIN d \ gs |-> d[h]]

\* A write of items through a handle on generation g (O_APPEND).
AppendTo(d, g, items) ==
    IF g \in DOMAIN d THEN [d EXCEPT ![g] = @ \o items] ELSE d

RECURSIVE CountItems(_, _)
CountItems(d, gs) ==
    IF gs = {} THEN 0
    ELSE LET g == CHOOSE h \in gs : TRUE
         IN  Len(d[g]) + CountItems(d, gs \ {g})

TotalItems(d) == CountItems(d, DOMAIN d)

\* fn new_log_file: create-or-open "{generation}.log" for appending and put a
\* reader for it in the pool.
NewLogFile(s, g) ==
    [s EXCEPT !.disk = CreateFile(s.disk, g), !.readers = @ \cup {g}]

\* BufWriter::flush on KvStore.writer: the buffered records reach the file.
FlushWriter(s) ==
    [s EXCEPT !.disk = AppendTo(s.disk, s.writerGen, s.wbuf), !.wbuf = <<>>]

\* ---------------------------------------------------------- directory names
\* A file name is the sequence of its characters.
Digits == <<"0", "1", "2", "3", "4", "5", "6", "7", "8", "9">>

IsDigit(c) == \E i \in 1..10 : Digits[i] = c

DigitValue(c) == (CHOOSE i \in 1..10 : Digits[i] = c) - 1

DotLog == <<".", "l", "o", "g">>

\* format!("{generation}")
RECURSIVE Format(_)
Format(n) ==
    IF n < 10 THEN <<Digits[n + 1]>>
    ELSE Format(n \div 10) \o <<Digits[(n % 10) + 1]>>

\* fn log_path: the file name of generation g.
log_path(g) == Format(g) \o DotLog

\* Path::extension() == Some(ext): the part of the file name after its last
\* ".", when there is a "." and it is not the first character of the name.
HasExtension(name, ext) ==
    LET dots == {i \in 1..Len(name) : name[i] = "."}
    IN  /\ dots # {}
        /\ LET last == CHOOSE i \in dots : \A j \in dots : j <= i
           IN  last > 1 /\ SubSeq(name, last + 1, Len(name)) = ext

\* str::trim_end_matches(pat): the suffix pat is removed as often as it
\* matches.
RECURSIVE trim_end_matches(_, _)
trim_end_matches(str, pat) ==
    IF Len(str) >= Len(pat)
       /\ SubSeq(str, Len(str) - Len(pat) + 1, Len(str)) = pat
    THEN trim_end_matches(SubSeq(str, 1, Len(str) - Len(pat)), pat)
    ELSE str

RECURSIVE DecimalValue(_)
DecimalValue(ds) ==
    IF ds = <<>> THEN 0
    ELSE 10 * DecimalValue(SubSeq(ds, 1, Len(ds) - 1)) + DigitValue(ds[Len(ds)])

\* str::parse::<u64>: an optional "+", then one digit or more, the value
\* below 2^64; -1 is its Err.
ParseU64(str) ==
    LET ds == IF str # <<>> /\ str[1] = "+" THEN Tail(str) ELSE str
    IN  IF ds = <<>> \/ Len(ds) > 19 \/ \E i \in 1..Len(ds) : ~IsDigit(ds[i])
        THEN -1
        ELSE DecimalValue(ds)

\* An entry of the directory: a regular file or a sub-directory, and its name.
DirEntry(kind, name) == [kind |-> kind, name |-> name]

\* std::fs::read_dir(path): the generation files d and the other entries fs.
read_dir(d, fs) == {DirEntry("file", log_path(g)) : g \in DOMAIN d} \cup fs

\* The entries that pass the filter of line 279: regular files with the
\* extension "log".
LogFiles(es) ==
    {e \in es : e.kind = "file" /\ HasExtension(e.name, <<"l", "o", "g">>)}

\* What lines 280-285 make of these entries' names: one parse result each.
Parsed(es) == {<<e, ParseU64(trim_end_matches(e.name, DotLog))>> : e \in es}

\* The results that are no Err (flatten, line 286), one number per entry, in
\* ascending order (sort_unstable).
RECURSIVE SortedGenerations(_)
SortedGenerations(ps) ==
    IF \A p \in ps : p[2] < 0 THEN <<>>
    ELSE LET m == CHOOSE p \in ps :
                      p[2] >= 0 /\ \A q \in ps : q[2] >= 0 => p[2] <= q[2]
         IN  <<m[2]>> \o SortedGenerations(ps \ {m})

\* The generation list without its sort_unstable(): as read_dir may give it,
\* newest first.
RECURSIVE Reversed(_)
Reversed(q) == IF q = <<>> THEN <<>> ELSE Reversed(Tail(q)) \o <<Head(q)>>

unsorted_generation_list(d, fs) ==
    Reversed(SortedGenerations(Parsed(LogFiles(read_dir(d, fs)))))

\* fn sorted_generation_list.
sorted_generation_list(d, fs) ==
    SortedGenerations(Parsed(LogFiles(read_dir(d, fs))))

\* ---------------------------------------------------------------------- get
None == [res |-> "None", value |-> NoVal]
Some(v) == [res |-> "Some", value |-> v]
Err(e) == [res |-> e, value |-> NoVal]

\* KvStore::get.  "Panic" is the expect("Cannot find log reader").
Get(s, k) ==
    IF k \notin DOMAIN s.index THEN None
    ELSE LET cp == s.index[k] IN
         IF cp.generation \notin s.readers THEN Err("Panic")
         ELSE LET file == IF cp.generation \in DOMAIN s.disk
                          THEN s.disk[cp.generation] ELSE <<>>
                  item == ReadRange(file, cp.pos, cp.len)
              IN  IF item.type = "Set" THEN Some(item.value)
                  ELSE IF item.type = "Remove" THEN Err("UnexpectedCommandType")
                  ELSE Err("SerdeError")

\* What get returns for every key.
ViewOf(s) == [k \in Keys |-> Get(s, k)]

View == ViewOf(Engine)

\* --------------------------------------------------------------------- load
IndexInsert(idx, k, cp) ==
    [j \in DOMAIN idx \cup {k} |-> IF j = k THEN cp ELSE idx[j]]

IndexRemove(idx, k) == [j \in DOMAIN idx \ {k} |-> idx[j]]

OldLen(idx, k) == IF k \in DOMAIN idx THEN idx[k].len ELSE 0

\* A load that steps over what it cannot parse.
RECURSIVE LoadFromSkipping(_, _, _, _, _, _)
LoadFromSkipping(g, items, i, pos, idx, unc) ==
    IF i > Len(items) THEN [ok |-> TRUE, index |-> idx, uncompacted |-> unc]
    ELSE LET e == items[i]
             new_pos == pos + e.len
         IN  IF e.type = "Set"
             THEN LoadFromSkipping(g, items, i + 1, new_pos,
                           IndexInsert(idx, e.key, CommandPos(g, pos, new_pos)),
                           unc + OldLen(idx, e.key))
             ELSE IF e.type = "Remove"
             THEN LoadFromSkipping(g, items, i + 1, new_pos,
                           IndexRemove(idx, e.key), unc + OldLen(idx, e.key))
             ELSE LoadFromSkipping(g, items, i + 1, new_pos, idx, unc)

\* fn load: replay one generation file from offset 0 into the index.
\* A Partial item makes the stream deserializer yield an error (EOF inside a
\* value at the end of the file, a syntax error before further records), and
\* `entry?` returns it.
RECURSIVE LoadFrom(_, _, _, _, _, _)
LoadFrom(g, items, i, pos, idx, unc) ==
    IF i > Len(items) THEN [ok |-> TRUE, index |-> idx, uncompacted |-> unc]
    ELSE LET e == items[i]
             new_pos == pos + e.len
         IN  IF e.type = "Set"
             THEN LoadFrom(g, items, i + 1, new_pos,
                           IndexInsert(idx, e.key, CommandPos(g, pos, new_pos)),
                           unc + OldLen(idx, e.key))
             ELSE IF e.type = "Remove"
             THEN LoadFrom(g, items, i + 1, new_pos,
                           IndexRemove(idx, e.key), unc + OldLen(idx, e.key))
             ELSE [ok |-> FALSE, index |-> idx, uncompacted |-> unc]

load(g, items, idx) == LoadFrom(g, items, 1, 0, idx, 0)

\* --------------------------------------------------------------------- open
\* The loop of KvStore::open over generation_list.  File::open fails for a
\* generation of the list that has no file.
RECURSIVE Replay(_, _, _, _, _)
Replay(d, gl, i, idx, unc) ==
    IF i > Len(gl)
    THEN [ok |-> TRUE, err |-> "Ok", index |-> idx, uncompacted |-> unc]
    ELSE IF gl[i] \notin DOMAIN d
    THEN [ok |-> FALSE, err |-> "IoError", index |-> idx, uncompacted |-> unc]
    ELSE LET r == load(gl[i], d[gl[i]], idx)
         IN  IF r.ok THEN Replay(d, gl, i + 1, r.index, unc + r.uncompacted)
             ELSE [ok |-> FALSE, err |-> "SerdeError", index |-> r.index,
                   uncompacted |-> r.uncompacted]

\* The next generation taken from the number of files, not from the last.
NextGenerationByCount(gl) == Len(gl) + 1

NextGeneration(gl) == IF gl = <<>> THEN 1 ELSE gl[Len(gl)] + 1

\* KvStore::open on a directory with the generation files d and the other
\* entries fs.  new_log_file cannot open a sub-directory for appending.
OpenDir(d, fs) ==
    LET gl == sorted_generation_list(d, fs)
        r == Replay(d, gl, 1, [k \in {} |-> CommandPos(0, 0, 0)], 0)
        g == NextGeneration(gl)
    IN  IF ~r.ok THEN [ok |-> FALSE, err |-> r.err, st |-> NoEngine(d)]
        ELSE IF DirEntry("dir", log_path(g)) \in fs
        THEN [ok |-> FALSE, err |-> "IoError", st |-> NoEngine(d)]
        ELSE [ok |-> TRUE, err |-> "Ok",
              st |-> [disk |-> CreateFile(d, g),
                      readers |-> {gl[i] : i \in 1..Len(gl)} \cup {g},
                      writerGen |-> g, writerPos |-> 0, wbuf |-> <<>>,
                      current_generation |-> g, index |-> r.index,
                      uncompacted |-> r.uncompacted]]

\* ------------------------------------------------------------------- faults
\* Where the environment makes a step of a handler fail (an I/O error that `?`
\* returns) or, for a crash, where the process dies.  "none": every step
\* succeeds.
\*   write         serde_json::to_writer on KvStore.writer (line 152/175)
\*   flush         self.writer.flush() (line 153/176)
\*   newActive     self.new_log_file(self.current_generation) (line 219)
\*   newTarget     self.new_log_file(compaction_generation) (line 221)
\*   copy          seek / io::copy of the live entry of key KeyOrder[i]
\*   compactFlush  compaction_writer.flush() (line 236)
\*   removeFile    remove_file of stale generation gen, after those of done
\* flag: the file was created before new_log_file failed (newActive,
\* newTarget); the bytes accepted so far stay in the BufWriter (write).
\* kept, partial: of the records given to a writer that ends unflushed, the
\* first `kept` are whole in the file, and with `partial` a cut piece of the
\* next one follows them.
Fault(at, flag, i, kept, partial, gen, done) ==
    [at |-> at, flag |-> flag, i |-> i, kept |-> kept, partial |-> partial,
     gen |-> gen, done |-> done]

NoFault == Fault("none", FALSE, 0, 0, FALSE, 0, {})

OwnFaults ==
    {Fault("write", b, 0, 0, FALSE, 0, {}) : b \in BOOLEAN}
        \cup {Fault("flush", FALSE, 0, 0, FALSE, 0, {})}

\* The faults of compact() that an engine with the readers rd and n live
\* keys can meet.
CompactFaults(rd, n) ==
    {Fault(at, b, 0, 0, FALSE, 0, {}) : at \in {"newActive", "newTarget"},
                                         b \in BOOLEAN}
        \cup {Fault("copy", FALSE, i, m, b, 0, {}) :
                  i \in 1..Len(KeyOrder), m \in 0..n, b \in BOOLEAN}
        \cup {Fault("compactFlush", FALSE, 0, m, b, 0, {}) :
                  m \in 0..n, b \in BOOLEAN}
        \cup UNION {{Fault("removeFile", FALSE, 0, 0, FALSE, g, D) :
                        D \in SUBSET (rd \ {g})} : g \in rd}

\* What of `stream` is in the file when its writer ends without a successful
\* flush.
Reached(stream, f) ==
    LET n == IF f.kept < Len(stream) THEN f.kept ELSE Len(stream)
    IN  SubSeq(stream, 1, n) \o
            (IF f.partial /\ n < Len(stream)
             THEN <<PartialOf(stream[n + 1], (stream[n + 1].len + 1) \div 2)>>
             ELSE <<>>)

\* ------------------------------------------------------------------ compact
\* The new writer taken to continue at the old writer's offset.
CompactNewActiveKeepPos(s) ==
    LET s1 == [s EXCEPT !.current_generation = @ + 2]
        s2 == NewLogFile(s1, s1.current_generation)
        s3 == FlushWriter(s2)
    IN  [s3 EXCEPT !.writerGen = s3.current_generation]

\* KvStore::compact, lines 217-219: allocate the two generations and replace
\* the writer by one on the new active file (the old writer is dropped, which
\* flushes what it still buffers).
CompactNewActive(s) ==
    LET s1 == [s EXCEPT !.current_generation = @ + 2]
        s2 == NewLogFile(s1, s1.current_generation)
        s3 == FlushWriter(s2)
    IN  [s3 EXCEPT !.writerGen = s3.current_generation, !.writerPos = 0]

\* The copy loop without line 234: new_pos stays where it was.
RECURSIVE CopyLoopSamePos(_, _, _, _, _, _)
CopyLoopSamePos(s, cg, i, new_pos, cbuf, failAt) ==
    IF i > Len(KeyOrder) THEN [st |-> s, cbuf |-> cbuf, end |-> "done"]
    ELSE LET k == KeyOrder[i] IN
         IF k \notin DOMAIN s.index
         THEN CopyLoopSamePos(s, cg, i + 1, new_pos, cbuf, failAt)
         ELSE LET cp == s.index[k] IN
              IF cp.generation \notin s.readers
              THEN [st |-> s, cbuf |-> cbuf, end |-> "panic"]
              ELSE LET file == IF cp.generation \in DOMAIN s.disk
                               THEN s.disk[cp.generation] ELSE <<>>
                       item == ReadRange(file, cp.pos, cp.len)
                       len == item.len
                       s1 == [s EXCEPT !.index[k] =
                                  CommandPos(cg, new_pos, new_pos + len)]
                   IN  IF i = failAt
                       THEN [st |-> s, cbuf |-> Append(cbuf, item),
                             end |-> "failed"]
                       ELSE CopyLoopSamePos(s1, cg, i + 1, new_pos,
                                     IF len = 0 THEN cbuf ELSE Append(cbuf, item),
                                     failAt)

\* Lines 222-235: the copy loop over index.values_mut(), from the i-th key of
\* the BTreeMap's order on.  cbuf is what the compaction writer was given;
\* each entry is repointed to where its copy starts.  The loop ends early
\* with end = "panic" when a reader is missing (expect("Cannot find log
\* reader")) and with end = "failed" when the entry of KeyOrder[failAt]
\* cannot be copied; `item` is then the record in flight.
RECURSIVE CopyLoop(_, _, _, _, _, _)
CopyLoop(s, cg, i, new_pos, cbuf, failAt) ==
    IF i > Len(KeyOrder) THEN [st |-> s, cbuf |-> cbuf, end |-> "done"]
    ELSE LET k == KeyOrder[i] IN
         IF k \notin DOMAIN s.index
         THEN CopyLoop(s, cg, i + 1, new_pos, cbuf, failAt)
         ELSE LET cp == s.index[k] IN
              IF cp.generation \notin s.readers
              THEN [st |-> s, cbuf |-> cbuf, end |-> "panic"]
              ELSE LET file == IF cp.generation \in DOMAIN s.disk
                               THEN s.disk[cp.generation] ELSE <<>>
                       item == ReadRange(file, cp.pos, cp.len)
                       len == item.len
                       s1 == [s EXCEPT !.index[k] =
                                  CommandPos(cg, new_pos, new_pos + len)]
                   IN  IF i = failAt
                       THEN [st |-> s, cbuf |-> Append(cbuf, item),
                             end |-> "failed"]
                       ELSE CopyLoop(s1, cg, i + 1, new_pos + len,
                                     IF len = 0 THEN cbuf ELSE Append(cbuf, item),
                                     failAt)

\* The filter of line 241 with <= for <.
StaleGensInclusive(s, cg) == {g \in s.readers : g <= cg}

\* Lines 238-243: the generations to retire.
StaleGens(s, cg) == {g \in s.readers : g < cg}

\* Lines 244-247 without readers.remove: only the files go.
RemoveStaleFilesOnly(s, gs) == [s EXCEPT !.disk = RemoveFiles(@, gs)]

\* Lines 244-247 for the generations gs: reader and file removed.
RemoveStale(s, gs) ==
    [s EXCEPT !.readers = @ \ gs, !.disk = RemoveFiles(@, gs)]

\* compact() from line 238 on, with the compaction writer flushed: retire
\* the stale generations and reset the counter.
CompactRetire(s, stale, f) ==
    IF f.at = "removeFile" /\ f.gen \in stale /\ f.done \subseteq stale \ {f.gen}
    THEN [st |-> [s EXCEPT !.readers = @ \ (f.done \cup {f.gen}),
                           !.disk = RemoveFiles(@, f.done)],
          res |-> "IoError", hit |-> TRUE]
    ELSE [st |-> [RemoveStale(s, stale) EXCEPT !.uncompacted = 0],
          res |-> "Ok", hit |-> FALSE]

\* compact() from line 236 on with the stale generations retired before the
\* compaction writer is flushed.
CompactFlushAfterRetire(c, cg, f) ==
    IF c.end = "panic"
    THEN [st |-> [c.st EXCEPT !.disk = AppendTo(@, cg, c.cbuf)],
          res |-> "Panic", hit |-> FALSE]
    ELSE IF c.end = "failed"
    THEN [st |-> [c.st EXCEPT !.disk = AppendTo(@, cg, Reached(c.cbuf, f))],
          res |-> "IoError", hit |-> f.kept < Len(c.cbuf)]
    ELSE IF f.at = "compactFlush"
    THEN [st |-> [c.st EXCEPT !.disk = AppendTo(@, cg, Reached(c.cbuf, f))],
          res |-> "IoError",
          hit |-> f.kept <= Len(c.cbuf) /\ (f.partial => f.kept < Len(c.cbuf))]
    ELSE IF f.at = "removeFile"
    THEN CompactRetire(c.st, StaleGens(c.st, cg), f)
    ELSE CompactRetire([c.st EXCEPT !.disk = AppendTo(@, cg, c.cbuf)],
                       StaleGens(c.st, cg), f)

\* compact() from line 236 on, c being what the copy loop left.  A compaction
\* writer that is dropped on an early return flushes as far as it gets.
CompactFlush(c, cg, f) ==
    IF c.end = "panic"
    THEN [st |-> [c.st EXCEPT !.disk = AppendTo(@, cg, c.cbuf)],
          res |-> "Panic", hit |-> FALSE]
    ELSE IF c.end = "failed"
    THEN [st |-> [c.st EXCEPT !.disk = AppendTo(@, cg, Reached(c.cbuf, f))],
          res |-> "IoError", hit |-> f.kept < Len(c.cbuf)]
    ELSE IF f.at = "compactFlush"
    THEN [st |-> [c.st EXCEPT !.disk = AppendTo(@, cg, Reached(c.cbuf, f))],
          res |-> "IoError",
          hit |-> f.kept <= Len(c.cbuf) /\ (f.partial => f.kept < Len(c.cbuf))]
    ELSE CompactRetire([c.st EXCEPT !.disk = AppendTo(@, cg, c.cbuf)],
                       StaleGens(c.st, cg), f)

\* compact() from line 221 on, s1 being the engine with its new writer.
CompactInto(s1, cg, f) ==
    IF f.at = "newTarget"
    THEN [st |-> [s1 EXCEPT !.disk = IF f.flag THEN CreateFile(@, cg) ELSE @],
          res |-> "IoError", hit |-> TRUE]
    ELSE CompactFlush(CopyLoop(NewLogFile(s1, cg), cg, 1, 0, <<>>,
                               IF f.at = "copy" THEN f.i ELSE 0), cg, f)

\* KvStore::compact under fault f: the engine it leaves, what it returns, and
\* whether f's step was reached.
Compact(s, f) ==
    IF f.at = "newActive"
    THEN [st |-> [s EXCEPT !.current_generation = @ + 2,
                           !.disk = IF f.flag
                                    THEN CreateFile(@, s.current_generation + 2)
                                    ELSE @],
          res |-> "IoError", hit |-> TRUE]
    ELSE CompactInto(CompactNewActive(s), s.current_generation + 1, f)

\* ---------------------------------------------------------------------- set
\* std::io::BufWriter's default capacity: a write at least this long goes to
\* the file directly, a shorter one waits in the buffer for a flush.
BufCapacity == 8192

\* set with `pos` read after the record was written.
SetAppendPosAfter(s, k, v) ==
    LET item == SerializeSet(k, v)
        s1 == [s EXCEPT !.wbuf = Append(@, item), !.writerPos = @ + item.len]
        s2 == FlushWriter(s1)
    IN  [s2 EXCEPT !.index = IndexInsert(@, k,
                        CommandPos(s.current_generation, s2.writerPos,
                                   s2.writerPos + item.len)),
                   !.uncompacted = @ + OldLen(s.index, k)]

\* KvStore::set, lines 149-161: append, flush, insert into the index.
SetAppend(s, k, v) ==
    LET item == SerializeSet(k, v)
        pos == s.writerPos
        s1 == [s EXCEPT !.wbuf = Append(@, item), !.writerPos = @ + item.len]
        s2 == FlushWriter(s1)
    IN  [s2 EXCEPT !.index = IndexInsert(@, k,
                        CommandPos(s.current_generation, pos, s2.writerPos)),
                   !.uncompacted = @ + OldLen(s.index, k)]

\* Line 163 with >= for >.
MustCompactAtThreshold(s) == s.uncompacted >= COMPACTION_THRESHOLD

\* Line 163.
MustCompact(s) == s.uncompacted > COMPACTION_THRESHOLD

\* set() from line 163 on with the result of compact() dropped.
SetCompactIgnored(s1, f) ==
    IF MustCompact(s1)
    THEN [Compact(s1, f) EXCEPT !.res = "Ok"] @@
             [compacted |-> TRUE, unc |-> s1.uncompacted]
    ELSE [st |-> s1, res |-> "Ok", hit |-> FALSE, compacted |-> FALSE,
          unc |-> s1.uncompacted]

\* set() from line 163 on, s1 being the engine with the record appended and
\* indexed.
SetCompact(s1, f) ==
    IF MustCompact(s1)
    THEN [Compact(s1, f) EXCEPT !.hit = @] @@
             [compacted |-> TRUE, unc |-> s1.uncompacted]
    ELSE [st |-> s1, res |-> "Ok", hit |-> FALSE, compacted |-> FALSE,
          unc |-> s1.uncompacted]

\* What set(k, v) leaves when its own append fails: a cut piece of the record
\* in the BufWriter (flag) or in the file, or (flush) the record in the
\* BufWriter.
SetFailed(s, item, f) ==
    IF f.at = "flush"
    THEN [s EXCEPT !.wbuf = Append(@, item), !.writerPos = @ + item.len]
    ELSE IF f.flag
    THEN [s EXCEPT !.wbuf = Append(@, PartialOf(item, (item.len + 1) \div 2)),
                   !.writerPos = @ + (item.len + 1) \div 2]
    ELSE [FlushWriter(s) EXCEPT
              !.disk = AppendTo(@, s.writerGen,
                                <<PartialOf(item, (item.len + 1) \div 2)>>),
              !.writerPos = @ + (item.len + 1) \div 2]

\* KvStore::set under fault f: the engine it leaves, what it returns, whether
\* compact() was called, the counter that line 163 read, and whether f's step
\* was reached.  to_writer can fail only for a record that does not fit the
\* BufWriter.
Set(s, k, v, f) ==
    IF \/ f.at = "write" /\ SerializeSet(k, v).len >= BufCapacity
       \/ f.at = "flush"
    THEN [st |-> SetFailed(s, SerializeSet(k, v), f), res |-> "IoError",
          hit |-> TRUE, compacted |-> FALSE, unc |-> s.uncompacted]
    ELSE SetCompact(SetAppend(s, k, v), f)

\* remove that also counts the bytes of the Remove record it wrote.
RemoveAppendCountingItself(s, k) ==
    LET item == SerializeRemove(k)
        s1 == [s EXCEPT !.wbuf = Append(@, item), !.writerPos = @ + item.len]
        s2 == FlushWriter(s1)
    IN  [s2 EXCEPT !.index = IndexRemove(@, k),
                   !.uncompacted = @ + OldLen(s.index, k) + item.len]

\* ------------------------------------------------------------------- remove
\* KvStore::remove, lines 174-181, on a key of the index.
RemoveAppend(s, k) ==
    LET item == SerializeRemove(k)
        s1 == [s EXCEPT !.wbuf = Append(@, item), !.writerPos = @ + item.len]
        s2 == FlushWriter(s1)
    IN  [s2 EXCEPT !.index = IndexRemove(@, k),
                   !.uncompacted = @ + OldLen(s.index, k)]

\* remove with the record written before the key is looked up.
RemoveUnchecked(s, k, f) ==
    LET item == SerializeRemove(k)
        s1 == FlushWriter([s EXCEPT !.wbuf = Append(@, item),
                                    !.writerPos = @ + item.len])
    IN  IF k \notin DOMAIN s.index
        THEN [st |-> s1, res |-> "KeyNotFound", hit |-> FALSE]
        ELSE IF f.at = "flush"
        THEN [st |-> [s EXCEPT !.wbuf = Append(@, item),
                               !.writerPos = @ + item.len],
              res |-> "IoError", hit |-> TRUE]
        ELSE [st |-> RemoveAppend(s, k), res |-> "Ok", hit |-> FALSE]

\* KvStore::remove under fault f.  A Remove record is shorter than the
\* BufWriter's capacity, so to_writer only fills the buffer and the one step
\* that can fail is the flush.
Remove(s, k, f) ==
    LET item == SerializeRemove(k)
    IN  IF k \notin DOMAIN s.index
        THEN [st |-> s, res |-> "KeyNotFound", hit |-> FALSE]
        ELSE IF f.at = "flush"
        THEN [st |-> [s EXCEPT !.wbuf = Append(@, item),
                               !.writerPos = @ + item.len],
              res |-> "IoError", hit |-> TRUE]
        ELSE [st |-> RemoveAppend(s, k), res |-> "Ok", hit |-> FALSE]

\* ------------------------------------------------------------------ actions
Op(op, k, v, res, compacted, unc, f) ==
    [op |-> op, key |-> k, value |-> v, res |-> res, compacted |-> compacted,
     unc |-> unc, fault |-> f.at]

SimpleOp(op, k, v, res) == Op(op, k, v, res, FALSE, 0, NoFault)

EmptyView == [k \in Keys |-> None]

Down(kind, view, k, v) == [kind |-> kind, view |-> view, key |-> k, value |-> v]

Init ==
    /\ disk = [g \in {} |-> <<>>]
    /\ up = FALSE
    /\ readers = {}
    /\ writerGen = 0
    /\ writerPos = 0
    /\ wbuf = <<>>
    /\ current_generation = 0
    /\ index = [k \in {} |-> CommandPos(0, 0, 0)]
    /\ uncompacted = 0
    /\ amap = [k \in Keys |-> NoVal]
    /\ lastOp = SimpleOp("none", NoVal, NoVal, "Ok")
    /\ down = Down("new", EmptyView, NoVal, NoVal)
    /\ struck = FALSE
    /\ foreign = {}

\* What the mutation in flight when the engine went away leaves for its key.
InFlight == IF down.value = NoVal THEN None ELSE Some(down.value)

\* KvStore::open(path).  A mutation that was in flight at a crash and is
\* found in the log counts as made from here on.
Open ==
    /\ ~up
    /\ NextGeneration(sorted_generation_list(disk, foreign)) <= MaxGen
    /\ \E r \in {OpenDir(disk, foreign)} :
        /\ Install(r.st)
        /\ up' = r.ok
        /\ lastOp' = SimpleOp("open", NoVal, NoVal, r.err)
        /\ amap' = IF r.ok /\ down.key \in Keys /\ Get(r.st, down.key) = InFlight
                   THEN [amap EXCEPT ![down.key] = down.value]
                   ELSE amap
    /\ UNCHANGED <<down, struck, foreign>>

\* The KvStore is dropped: its writer flushes what it buffers, every handle
\* is closed.
Close ==
    /\ up
    /\ up' = FALSE
    /\ Install(NoEngine(FlushWriter(Engine).disk))
    /\ down' = Down("closed", View, NoVal, NoVal)
    /\ lastOp' = SimpleOp("close", NoVal, NoVal, "Ok")
    /\ UNCHANGED <<amap, struck, foreign>>

\* A panic ends the process: the KvStore is dropped while unwinding.
Panicked(s, k, v) ==
    /\ Install(NoEngine(FlushWriter(s).disk))
    /\ up' = FALSE
    /\ down' = Down("panic", View, k, v)

\* The engine is in use again: how it last went away is history.
InUse == Down("none", EmptyView, NoVal, NoVal)

\* A get that logged itself, as the Get of the wire protocol is not.
GetOpLogging(k) ==
    /\ up
    /\ \E r \in {Get(Engine, k)} :
        /\ lastOp' = SimpleOp("get", k, r.value, r.res)
        /\ IF r.res = "Panic"
           THEN Panicked(Engine, NoVal, NoVal)
           ELSE /\ down' = InUse
                /\ disk' = AppendTo(disk, writerGen,
                               <<[type |-> "Get", key |-> k, value |-> NoVal,
                                  len |-> RemoveOverhead + KeyLen(k) - 3]>>)
                /\ UNCHANGED <<up, readers, writerGen, writerPos, wbuf,
                               current_generation, index, uncompacted>>
    /\ UNCHANGED <<amap, struck, foreign>>

\* store.get(k).
GetOp(k) ==
    /\ up
    /\ \E r \in {Get(Engine, k)} :
        /\ lastOp' = SimpleOp("get", k, r.value, r.res)
        /\ IF r.res = "Panic"
           THEN Panicked(Engine, NoVal, NoVal)
           ELSE /\ down' = InUse
                /\ UNCHANGED <<disk, up, readers, writerGen, writerPos, wbuf,
                               current_generation, index, uncompacted>>
    /\ UNCHANGED <<amap, struck, foreign>>

\* Room for one more record.
Room == TotalItems(disk) + Len(wbuf) < MaxItems

\* Room for the two generations of a compaction that set(k, v) would start.
GenRoom(k, v) ==
    MustCompact(SetAppend(Engine, k, v)) => current_generation + 2 <= MaxGen

\* The faults of compact() that set(k, v) can meet in the current state: none
\* unless line 163 finds the counter above the threshold.
CompactFaultsNow(k, v) ==
    IF MustCompact(SetAppend(Engine, k, v)) /\ current_generation + 2 <= MaxGen
    THEN CompactFaults(readers, Cardinality(DOMAIN index \cup {k}))
    ELSE {}

\* store.set(k, v) with the environment's fault f.
SetOp(k, v, f) ==
    /\ up
    /\ Room
    /\ f.at # "none" => ~struck
    /\ GenRoom(k, v)
    /\ \E r \in {Set(Engine, k, v, f)} :
        /\ f.at # "none" => r.hit
        /\ IF r.res = "Panic"
           THEN Panicked(r.st, k, v)
           ELSE /\ Install(r.st)
                /\ down' = InUse
                /\ UNCHANGED up
        /\ lastOp' = Op("set", k, v, r.res, r.compacted, r.unc, f)
        /\ amap' = IF r.res = "Ok" THEN [amap EXCEPT ![k] = v] ELSE amap
    /\ struck' = (struck \/ f.at # "none")
    /\ UNCHANGED foreign

\* store.remove(k) with the environment's fault f.
RemoveOp(k, f) ==
    /\ up
    /\ Room
    /\ f.at # "none" => ~struck
    /\ \E r \in {Remove(Engine, k, f)} :
        /\ f.at # "none" => r.hit
        /\ Install(r.st)
        /\ lastOp' = Op("remove", k, NoVal, r.res, FALSE, r.st.uncompacted, f)
        /\ amap' = IF r.res = "Ok" THEN [amap EXCEPT ![k] = NoVal] ELSE amap
    /\ down' = InUse
    /\ struck' = (struck \/ f.at # "none")
    /\ UNCHANGED <<up, foreign>>

Next ==
    \/ Open
    \/ Close
    \/ \E k \in Keys : GetOp(k)
    \/ \E k \in Keys, v \in Values : SetOp(k, v, NoFault)
    \/ \E k \in Keys : RemoveOp(k, NoFault)

\* Operations that all succeed, and engines that are closed before the
\* directory is opened again.
Spec == Init /\ [][Next]_vars

\* ------------------------------------------------------------------ crashes
\* A run has at most one crash or failed step (`struck`).
\* The process dies between two operations: the directory stays as it is.
CrashIdle ==
    /\ up
    /\ ~struck
    /\ up' = FALSE
    /\ Install(NoEngine(disk))
    /\ down' = Down("idle", View, NoVal, NoVal)
    /\ lastOp' = SimpleOp("crash", NoVal, NoVal, "Ok")
    /\ struck' = TRUE
    /\ UNCHANGED <<amap, foreign>>

\* Where a crash can cut a handler short, besides the steps of compact():
\* in the middle of the append of its record, and after its last step, before
\* it returns.
CutAppend == Fault("append", FALSE, 0, 0, FALSE, 0, {})
CutReturn == Fault("return", FALSE, 0, 0, FALSE, 0, {})

\* Where a crash can cut set(k, v) short in the current state.
Cuts(k, v) ==
    IF up /\ ~struck /\ Room
    THEN {CutAppend, CutReturn} \cup CompactFaultsNow(k, v)
    ELSE {}

\* The process dies inside set(k, v), at cut f.
CrashInSet(k, v, f) ==
    /\ up
    /\ ~struck
    /\ Room
    /\ GenRoom(k, v)
    /\ \E r \in {Set(Engine, k, v, f)} :
        /\ f.at \notin {"append", "return"} => r.hit
        /\ Install(NoEngine(IF f.at = "append"
                            THEN AppendTo(disk, writerGen,
                                     <<PartialOf(SerializeSet(k, v),
                                          (SerializeSet(k, v).len + 1) \div 2)>>)
                            ELSE r.st.disk))
        /\ down' = IF f.at = "append" THEN Down("truncated", View, k, v)
                   ELSE IF f.at = "return" THEN Down("unacked", View, k, v)
                   ELSE Down("compact", ViewOf(SetAppend(Engine, k, v)), k, v)
    /\ up' = FALSE
    /\ lastOp' = SimpleOp("crash", NoVal, NoVal, "Ok")
    /\ struck' = TRUE
    /\ UNCHANGED <<amap, foreign>>

\* The process dies inside remove(k), k a key of the index, at cut f.
CrashInRemove(k, f) ==
    /\ up
    /\ ~struck
    /\ Room
    /\ k \in DOMAIN index
    /\ Install(NoEngine(IF f.at = "append"
                        THEN AppendTo(disk, writerGen,
                                 <<PartialOf(SerializeRemove(k),
                                      (SerializeRemove(k).len + 1) \div 2)>>)
                        ELSE Remove(Engine, k, NoFault).st.disk))
    /\ down' = Down(IF f.at = "append" THEN "truncated" ELSE "unacked",
                    View, k, NoVal)
    /\ up' = FALSE
    /\ lastOp' = SimpleOp("crash", NoVal, NoVal, "Ok")
    /\ struck' = TRUE
    /\ UNCHANGED <<amap, foreign>>

NextCrash ==
    \/ Open
    \/ Close
    \/ \E k \in Keys, v \in Values : SetOp(k, v, NoFault)
    \/ \E k \in Keys : RemoveOp(k, NoFault)
    \/ CrashIdle
    \/ \E k \in Keys, v \in Values : \E f \in Cuts(k, v) : CrashInSet(k, v, f)
    \/ \E k \in Keys, f \in {CutAppend, CutReturn} : CrashInRemove(k, f)

\* The operations, and a process that may die at any point of them.
SpecCrash == Init /\ [][NextCrash]_vars

\* ------------------------------------------------------------------- errors
RemoveFaults == {Fault("flush", FALSE, 0, 0, FALSE, 0, {})}

\* The faults set(k, v) can meet in the current state.
SetFaults(k, v) ==
    IF up /\ ~struck /\ Room THEN OwnFaults \cup CompactFaultsNow(k, v) ELSE {}

NextFault ==
    \/ Open
    \/ Close
    \/ \E k \in Keys, v \in Values : SetOp(k, v, NoFault)
    \/ \E k \in Keys : RemoveOp(k, NoFault)
    \/ \E k \in Keys, v \in Values : \E f \in SetFaults(k, v) : SetOp(k, v, f)
    \/ \E k \in Keys, f \in RemoveFaults : RemoveOp(k, f)

\* The operations, and an environment that may fail an I/O step of set or
\* remove.
SpecFault == Init /\ [][NextFault]_vars
\* The faults of compact() alone that set(k, v) can meet in the current state.
CompactFailures(k, v) ==
    IF up /\ ~struck /\ Room THEN CompactFaultsNow(k, v) ELSE {}

NextGet ==
    \/ Open
    \/ Close
    \/ \E k \in Keys : GetOp(k)
    \/ \E k \in Keys, v \in Values : SetOp(k, v, NoFault)
    \/ \E k \in Keys : RemoveOp(k, NoFault)
    \/ \E k \in Keys, v \in Values :
           \E f \in CompactFailures(k, v) : SetOp(k, v, f)

\* The operations with get among them, and a compaction that may fail: gets
\* that find their record, that find none, and that find no JSON value.
SpecGet == Init /\ [][NextGet]_vars

\* ---------------------------------------------------------- foreign entries
\* Entries of the directory that are no generation file: "a.txt", "x.log",
\* a sub-directory "2.log", and "3.log.log".
ForeignEntries ==
    {DirEntry("file", <<"a", ".", "t", "x", "t">>),
     DirEntry("file", <<"x">> \o DotLog),
     DirEntry("dir", log_path(2)),
     DirEntry("file", log_path(3) \o DotLog)}

\* Another program puts entry e in the directory, while no KvStore has it
\* open: open alone reads the directory.
PutForeign(e) ==
    /\ ~up
    /\ e \notin foreign
    /\ foreign' = foreign \cup {e}
    /\ lastOp' = SimpleOp("foreign", NoVal, NoVal, "Ok")
    /\ UNCHANGED <<disk, up, readers, writerGen, writerPos, wbuf,
                   current_generation, index, uncompacted, amap, down, struck>>

\* Small values: no compaction runs while the directory has foreign entries.
NextDir ==
    \/ Open
    \/ Close
    \/ \E k \in Keys : SetOp(k, "x", NoFault)
    \/ \E k \in Keys : RemoveOp(k, NoFault)
    \/ \E e \in ForeignEntries : PutForeign(e)

\* The operations on a directory that other programs put entries in.
SpecDir == Init /\ [][NextDir]_vars

\* ------------------------------------------------------------------- claims
\* The abstract map read as get would answer.
Opt(v) == IF v = NoVal THEN None ELSE Some(v)

AbstractView == [k \in Keys |-> Opt(amap[k])]

\* C1: after any sequence of successful open, set and remove (and the
\* compactions they trigger), get(k) returns Some(v) for the value v of the
\* last successful set(k, v) that no later successful remove(k) followed, and
\* None for every other key.
AbstractMapRefinement == up => View = AbstractView

\* A compaction has run, one key was set and the other removed, and get has
\* just answered None for the removed one.
AbstractMapWitness ==
    /\ up
    /\ lastOp.op = "get" /\ lastOp.res = "None" /\ lastOp.key = "bb"
    /\ amap["a"] = "x"
    /\ current_generation >= 3
    /\ 1 \notin DOMAIN disk

\* C2: after successful operations and a close, open on the same directory
\* succeeds and get answers for every key what it answered just before the
\* close.
ReopenKeepsView ==
    (lastOp.op = "open" /\ down.kind = "closed")
        => (lastOp.res = "Ok" /\ up /\ View = down.view)

\* A reopen of a directory that went through a compaction and holds three
\* generations, with a key that is live.
ReopenWitness ==
    /\ lastOp.op = "open" /\ down.kind = "closed" /\ up
    /\ 1 \notin DOMAIN disk
    /\ Cardinality(DOMAIN disk) >= 3
    /\ \E k \in Keys : down.view[k].res = "Some"

\* C3: once set or remove has returned Ok, a crash at any later point followed
\* by open gives a store whose get reflects every acknowledged mutation (the
\* mutation in flight at the crash may or may not be there).
AckedSurvivesCrash ==
    (lastOp.op = "open" /\ down.kind \in {"idle", "unacked", "truncated", "compact"})
        => (lastOp.res = "Ok" /\ View = AbstractView)

\* C4: a compaction run inside set changes what get answers for no key, the
\* key just set included, and leaves no generation file older than the
\* compaction generation.
CompactionTransparent ==
    [][(lastOp'.op = "set" /\ lastOp'.compacted /\ lastOp'.res = "Ok")
          => /\ View' = ViewOf(SetAppend(Engine, lastOp'.key, lastOp'.value))
             /\ \A g \in DOMAIN disk' : g >= current_generation + 1]_vars

\* A set has just compacted a store in which both keys are live.
CompactionWitness ==
    /\ up
    /\ lastOp.op = "set" /\ lastOp.compacted /\ lastOp.res = "Ok"
    /\ DOMAIN index = Keys
    /\ uncompacted = 0

\* C5: after a crash at any point inside compact(), open succeeds and gives
\* the key -> value mapping the store had when compact() was entered.
CompactionCrashRecovers ==
    (lastOp.op = "open" /\ down.kind = "compact")
        => (lastOp.res = "Ok" /\ View = down.view)

\* C6: when the newest generation file ends in a partially written record,
\* open returns Ok and the store holds the state as of the last fully written
\* record.
TruncatedTailTolerated ==
    (lastOp.op = "open" /\ down.kind = "truncated")
        => (lastOp.res = "Ok" /\ View = down.view)

\* C7: at every boundary of a successful operation, each index entry names a
\* generation whose file exists and has a reader, and its byte range is
\* exactly one whole Set record of its key; get never returns
\* UnexpectedCommandType and never panics for a missing reader.
IndexInvariant ==
    up => /\ \A k \in DOMAIN index :
               /\ index[k].generation \in DOMAIN disk
               /\ index[k].generation \in readers
               /\ ReadRange(disk[index[k].generation], index[k].pos,
                            index[k].len) = SerializeSet(k, Get(Engine, k).value)
          /\ \A k \in Keys : Get(Engine, k).res \in {"None", "Some"}

\* Both keys are indexed, in two generations: one entry was repointed by a
\* compaction, the other was written after it.
IndexWitness ==
    /\ up
    /\ DOMAIN index = Keys
    /\ index["a"].generation # index["bb"].generation
    /\ \E k \in Keys : index[k].generation = current_generation - 1
    /\ \E k \in Keys : index[k].generation = current_generation /\ index[k].pos > 0

\* C8: remove(k) on a key that is not in the index returns KeyNotFound and
\* changes nothing: no record is appended, and the index, the counter,
\* current_generation and the generation files stay as they were.
RemoveAbsentChangesNothing ==
    [][(lastOp'.op = "remove" /\ lastOp'.key \notin DOMAIN index)
          => /\ lastOp'.res = "KeyNotFound"
             /\ UNCHANGED <<disk, readers, writerGen, writerPos, wbuf,
                            current_generation, index, uncompacted>>]_vars

\* remove has just answered KeyNotFound for a key whose records are in the
\* log: it was set and removed before.
RemoveAbsentWitness ==
    /\ up
    /\ lastOp.op = "remove" /\ lastOp.res = "KeyNotFound"
    /\ \E g \in DOMAIN disk : \E i \in 1..Len(disk[g]) :
           disk[g][i].type = "Remove" /\ disk[g][i].key = lastOp.key

\* C9 as stated: set returns an error only when serializing, appending or
\* flushing its own record fails.
SetFailsOnlyOnOwnRecord ==
    (lastOp.op = "set" /\ lastOp.res = "IoError")
        => lastOp.fault \in {"write", "flush"}

\* The steps of compact() that can fail.
CompactSteps == {"newActive", "newTarget", "copy", "compactFlush", "removeFile"}

\* C9: set returns an error exactly when a step of its own append fails or a
\* step of the compaction it starts fails; the compaction is started only
\* with the record appended, flushed and indexed and the counter above the
\* threshold.
SetFailsOnOwnRecordOrCompaction ==
    lastOp.op = "set"
        => /\ (lastOp.res = "IoError") <=> (lastOp.fault # "none")
           /\ lastOp.fault \in CompactSteps
                  => /\ lastOp.compacted
                     /\ lastOp.unc > COMPACTION_THRESHOLD
                     /\ lastOp.key \in DOMAIN index

\* set has just returned an error from the deletion of a stale file, and get
\* answers the value it was given.
SetCompactionErrorWitness ==
    /\ up
    /\ lastOp.op = "set" /\ lastOp.res = "IoError" /\ lastOp.fault = "removeFile"
    /\ Get(Engine, lastOp.key) = Some(lastOp.value)

\* C10: compact() runs exactly in a set that finds the counter above 1 MiB
\* after appending and indexing its record; get and remove never run it, open
\* only adds its new generation file, and the counter is at most 1 MiB
\* whenever a set has returned Ok.
CompactOnlyInSet ==
    [][/\ (up /\ up')
            => ((current_generation' # current_generation
                    \/ DOMAIN disk' # DOMAIN disk)
                  <=> (lastOp'.op = "set" /\ lastOp'.unc > COMPACTION_THRESHOLD))
       /\ (~up /\ up')
            => /\ \A g \in DOMAIN disk : g \in DOMAIN disk' /\ disk'[g] = disk[g]
               /\ DOMAIN disk' = DOMAIN disk \cup {current_generation'}
       /\ (lastOp'.op = "set" /\ lastOp'.res = "Ok")
            => uncompacted' <= COMPACTION_THRESHOLD]_vars

\* The counter is above the threshold after a remove, an open that replayed
\* the directory and a get, and generation 1 is still there.
CompactOnlyInSetWitness ==
    /\ up
    /\ lastOp.op = "get"
    /\ uncompacted > COMPACTION_THRESHOLD
    /\ current_generation = 2
    /\ DOMAIN disk = {1, 2}
\* The bytes of the Set records in file g of directory d, from its i-th
\* record on, that no entry of idx references.
RECURSIVE StaleSetBytesFrom(_, _, _, _)
StaleSetBytesFrom(d, g, i, idx) ==
    IF i > Len(d[g]) THEN 0
    ELSE (IF /\ d[g][i].type = "Set"
             /\ \A k \in DOMAIN idx :
                    idx[k] # CommandPos(g, OffsetOf(d[g], i),
                                        OffsetOf(d[g], i) + d[g][i].len)
          THEN d[g][i].len ELSE 0)
         + StaleSetBytesFrom(d, g, i + 1, idx)

RECURSIVE StaleSetBytesIn(_, _, _)
StaleSetBytesIn(d, gs, idx) ==
    IF gs = {} THEN 0
    ELSE LET g == CHOOSE h \in gs : TRUE
         IN  StaleSetBytesFrom(d, g, 1, idx) + StaleSetBytesIn(d, gs \ {g}, idx)

StaleSetBytes == StaleSetBytesIn(disk, DOMAIN disk, index)

\* C11: at every operation boundary, also right after open has replayed the
\* directory, uncompacted is the sum of the lengths of the Set records on
\* disk that the index does not reference; a set on an indexed key and a
\* remove add exactly the replaced entry's len to the counter, a set on a new
\* key adds nothing.
StaleByteAccounting ==
    [][/\ up' => uncompacted' = StaleSetBytes'
       /\ (up /\ lastOp'.op = "set")
            => lastOp'.unc = uncompacted + OldLen(index, lastOp'.key)
       /\ (up /\ lastOp'.op = "remove" /\ lastOp'.res = "Ok")
            => uncompacted' = uncompacted + index[lastOp'.key].len]_vars

\* A directory was reopened whose log holds a superseded Set record, a
\* removed key's Set record and its Remove record: the counter is the two
\* Set records' bytes.
StaleByteWitness ==
    /\ up /\ lastOp.op = "open" /\ down.kind = "closed"
    /\ index = << >>
    /\ uncompacted = 2 * SerializeSet("a", "x").len
    /\ \E g \in DOMAIN disk : \E i \in 1..Len(disk[g]) : disk[g][i].type = "Remove"
\* C12: a successful compact() entered with current_generation = N leaves
\* current_generation = N+2 with the writer on the empty file N+2, every
\* index entry in generation N+1, exactly the files and the readers of N+1
\* and N+2, and uncompacted = 0.
CompactPostState ==
    [][(lastOp'.op = "set" /\ lastOp'.compacted /\ lastOp'.res = "Ok")
          => /\ current_generation' = current_generation + 2
             /\ writerGen' = current_generation + 2
             /\ writerPos' = 0 /\ wbuf' = <<>>
             /\ DOMAIN disk' = {current_generation + 1, current_generation + 2}
             /\ disk'[current_generation + 2] = <<>>
             /\ readers' = {current_generation + 1, current_generation + 2}
             /\ \A k \in DOMAIN index' :
                    index'[k].generation = current_generation + 1
             /\ uncompacted' = 0]_vars

\* A compaction entered with three generations on disk has just returned:
\* generations 1, 2 and 3 are gone.
CompactPostWitness ==
    /\ up
    /\ lastOp.op = "set" /\ lastOp.compacted /\ lastOp.res = "Ok"
    /\ current_generation = 5
    /\ DOMAIN disk = {4, 5}
    /\ index # << >>
\* C13: in every prefix of an execution of compact(), if a generation older
\* than the compaction generation has been deleted, the compaction
\* generation's file already holds the record of every key of the index.
CopyBeforeDelete ==
    [][(/\ lastOp'.op = "crash" /\ down'.kind = "compact"
        /\ \E g \in DOMAIN disk : g \notin DOMAIN disk')
          => /\ current_generation + 1 \in DOMAIN disk'
             /\ \A k \in Keys :
                    down'.view[k].res = "Some"
                        => \E i \in 1..Len(disk'[current_generation + 1]) :
                               disk'[current_generation + 1][i]
                                   = SerializeSet(k, down'.view[k].value)]_vars

\* compact() was cut between two deletions: generation 2 is gone, generation
\* 1 is still there, and the compaction generation 3 holds a record.
CopyBeforeDeleteWitness ==
    /\ ~up
    /\ lastOp.op = "crash" /\ down.kind = "compact"
    /\ 2 \notin DOMAIN disk
    /\ 1 \in DOMAIN disk
    /\ 3 \in DOMAIN disk /\ disk[3] # <<>>
\* C14: a set that returned Err because seeking or copying an entry,
\* flushing the compaction writer or deleting a stale file failed inside
\* compact() leaves every index entry on a byte range that exists in a file
\* with a reader, and get answers as before the failed compaction.
FailedCompactionKeepsView ==
    (/\ up /\ lastOp.op = "set" /\ lastOp.res = "IoError"
     /\ lastOp.fault \in {"copy", "compactFlush", "removeFile"})
        => /\ \A k \in DOMAIN index :
                /\ index[k].generation \in DOMAIN disk \cap readers
                /\ ReadRange(disk[index[k].generation], index[k].pos,
                             index[k].len).type = "Set"
           /\ View = [AbstractView EXCEPT ![lastOp.key] = Some(lastOp.value)]
\* The largest generation of a non-empty set.
Newest(gs) == CHOOSE m \in gs : \A g \in gs : g <= m

\* C15: open takes 1 + the largest generation on disk (1 if none) and
\* creates an empty file for it, compact creates only current_generation+1
\* and +2; across open, set, remove, compaction, crash and reopen every new
\* generation is greater than every generation that ever existed (each is
\* greater than all present ones and the largest is never deleted), only the
\* largest generation is appended to by set and remove, and no file that
\* existed before an open changes afterwards.
FreshGenerations ==
    [][/\ \A g \in DOMAIN disk' \ DOMAIN disk : \A h \in DOMAIN disk : g > h
       /\ DOMAIN disk # {}
            => DOMAIN disk' # {} /\ Newest(DOMAIN disk') >= Newest(DOMAIN disk)
       /\ (~up /\ up')
            => /\ current_generation'
                      = IF DOMAIN disk = {} THEN 1 ELSE Newest(DOMAIN disk) + 1
               /\ DOMAIN disk' = DOMAIN disk \cup {current_generation'}
               /\ disk'[current_generation'] = <<>>
               /\ \A g \in DOMAIN disk : disk'[g] = disk[g]
       /\ up' => /\ current_generation' = Newest(DOMAIN disk')
                 /\ writerGen' = current_generation'
       /\ up => /\ DOMAIN disk' \ DOMAIN disk
                     \subseteq {current_generation + 1, current_generation + 2}
                /\ \A g \in DOMAIN disk \cap DOMAIN disk' :
                       disk'[g] # disk[g] => g = current_generation]_vars

\* After a compaction, a crash and a reopen, set has appended to the new
\* generation 4; generations 2 and 3 are as the crash left them.
FreshGenerationsWitness ==
    /\ up /\ struck
    /\ lastOp.op = "set" /\ lastOp.res = "Ok"
    /\ current_generation = 4
    /\ DOMAIN disk = {2, 3, 4}
    /\ disk[4] # <<>>
\* The place of key k in the BTreeMap's order.
KeyRank(k) == CHOOSE i \in 1..Len(KeyOrder) : KeyOrder[i] = k

\* C16: after compact() the compaction generation's file is exactly one
\* record per key that was in the index, each the Set record the index
\* referenced, byte for byte, laid out from offset 0 without gaps in
\* ascending key order; each key's new CommandPos is (compaction generation,
\* offset of its copy, the original len); there is no Remove record and no
\* superseded Set record in it.
CompactionContent ==
    [][(lastOp'.op = "set" /\ lastOp'.compacted /\ lastOp'.res = "Ok")
          => LET s1 == SetAppend(Engine, lastOp'.key, lastOp'.value)
                 cg == current_generation + 1
             IN  /\ DOMAIN index' = DOMAIN s1.index
                 /\ Len(disk'[cg]) = Cardinality(DOMAIN s1.index)
                 /\ \A k \in DOMAIN s1.index :
                      \E i \in 1..Len(disk'[cg]) :
                        /\ disk'[cg][i]
                             = ReadRange(s1.disk[s1.index[k].generation],
                                         s1.index[k].pos, s1.index[k].len)
                        /\ disk'[cg][i].type = "Set" /\ disk'[cg][i].key = k
                        /\ index'[k] = [generation |-> cg,
                                        pos |-> OffsetOf(disk'[cg], i),
                                        len |-> s1.index[k].len]
                 /\ \A i, j \in 1..Len(disk'[cg]) :
                      i < j => KeyRank(disk'[cg][i].key)
                                 < KeyRank(disk'[cg][j].key)]_vars

\* A compaction has copied the records of both keys: the compaction file
\* holds two records, the copy of bb starting where the copy of a ends.
CompactionContentWitness ==
    /\ up
    /\ lastOp.op = "set" /\ lastOp.compacted /\ lastOp.res = "Ok"
    /\ DOMAIN index = Keys
    /\ index["a"].pos = 0
    /\ index["bb"].pos = index["a"].len
    /\ Len(disk[index["a"].generation]) = 2
\* C17: a generation file with a malformed record in the middle of its
\* stream makes open return a serialization error; the record is not
\* skipped and no KvStore is returned.
MalformedRecordFailsOpen ==
    (/\ lastOp.op = "open"
     /\ \E g \in DOMAIN disk : \E i \in 1..(Len(disk[g]) - 1) :
            disk[g][i].type = "Partial")
        => (lastOp.res = "SerdeError" /\ ~up)

\* open has just failed on a file in which a whole Set record follows the
\* piece of a record that a failed write left.
MalformedRecordWitness ==
    /\ lastOp.op = "open" /\ lastOp.res = "SerdeError"
    /\ \E g \in DOMAIN disk :
           /\ Len(disk[g]) = 2
           /\ disk[g][1].type = "Partial"
           /\ disk[g][2].type = "Set"
\* C19: after set(k, v1); remove(k); set(k, v2) with no compaction in
\* between, uncompacted includes the length of the Remove record in addition
\* to the length of the first Set record.
RemoveBytesCounted ==
    (/\ up /\ lastOp.op = "set" /\ lastOp.res = "Ok" /\ ~lastOp.compacted
     /\ Len(disk[writerGen]) >= 3)
        => LET file == disk[writerGen]
               n == Len(file)
           IN  (/\ file[n - 2].type = "Set" /\ file[n - 2].key = lastOp.key
                /\ file[n - 1].type = "Remove" /\ file[n - 1].key = lastOp.key
                /\ file[n].type = "Set" /\ file[n].key = lastOp.key)
                   => uncompacted >= file[n - 2].len + file[n - 1].len
\* C20: get is read-only: a get(k), whether it returns Some, None or an error,
\* appends no record to any generation file and leaves the index,
\* uncompacted, current_generation and the set of generation files
\* unchanged; only Set and Remove records (whole, or cut short by a failed
\* write) ever appear in a log.
OnlySetAndRemove ==
    /\ \A g \in DOMAIN disk : \A i \in 1..Len(disk[g]) :
           disk[g][i].type \in {"Set", "Remove", "Partial"}
    /\ \A i \in 1..Len(wbuf) : wbuf[i].type \in {"Set", "Remove"}

GetReadOnly ==
    /\ []OnlySetAndRemove
    /\ [][(lastOp'.op = "get" /\ lastOp'.res # "Panic")
            => UNCHANGED <<disk, index, uncompacted, current_generation,
                           readers, writerGen, writerPos, wbuf, up>>]_vars

\* A get returned an error, with Set and Remove records in the directory.
GetReadOnlyWitness ==
    /\ lastOp.op = "get"
    /\ lastOp.res = "SerdeError"
    /\ \E g \in DOMAIN disk : \E i \in 1..Len(disk[g]) : disk[g][i].type = "Set"
\* C18: foreign files are ignored: sorted_generation_list returns, in
\* ascending order and without duplicates, exactly the generations g for
\* which a regular file named "{g}.log" exists; every other entry is skipped
\* without error, so open succeeds and builds the same state as if those
\* entries were absent.
RECURSIVE Ascending(_)
Ascending(S) ==
    IF S = {} THEN <<>>
    ELSE LET m == CHOOSE x \in S : \A y \in S : x <= y
         IN  <<m>> \o Ascending(S \ {m})

ForeignEntriesIgnored ==
    /\ [](sorted_generation_list(disk, foreign) = Ascending(DOMAIN disk))
    /\ [][lastOp'.op = "open"
            => /\ up' = OpenDir(disk, {}).ok
               /\ lastOp'.res = OpenDir(disk, {}).err
               /\ Engine' = OpenDir(disk, {}).st]_vars
====
